---- MODULE Spec2Model ----
(***************************************************************************)
(* Model of the gzip/deflate response-compression middleware               *)
(* (src/compress.go): content negotiation, the eligibility check, the      *)
(* compressResponseWriter state machine and the New entry point.           *)
(*                                                                         *)
(* Go strings are modelled as tuples of one-character strings, so that    *)
(* Split, TrimSpace, HasPrefix, Atoi and Itoa are computed character by    *)
(* character as the library computes them.  A header is a list of values   *)
(* (http.Header is map[string][]string); the empty list means "absent".    *)
(***************************************************************************)
EXTENDS Integers, Sequences, FiniteSets, TLC

\* ------------------------------------------------------------------------
\* Bounds of the model
\* ------------------------------------------------------------------------

\* number of comma-separated tokens in a generated Accept-Encoding value
MaxTokens == 3

\* number of calls the handler makes on its response writer
MaxOps == 4

\* number of write errors the network connection may produce
MaxFail == 1

\* ------------------------------------------------------------------------
\* Program constants
\* ------------------------------------------------------------------------

CompressMinLength == 256

CompressMaxBuf == 16384

StatusOK == 200

compNone == 0

compGzip == 1

compDeflate == 2

hdrContentEncodingGzip == <<"g", "z", "i", "p">>

hdrContentEncodingDeflate == <<"d", "e", "f", "l", "a", "t", "e">>

hdrAcceptEncoding == <<"A", "c", "c", "e", "p", "t", "-", "E", "n", "c", "o", "d", "i", "n", "g">>

\* compStrings[c + 1] is the Go compStrings[c]
compStrings == << <<"n", "o", "n", "e">>, hdrContentEncodingGzip, hdrContentEncodingDeflate >>

\* compType.String
String(c) == compStrings[c + 1]

\* ------------------------------------------------------------------------
\* String helpers (package strings, strconv, net/http.Header)
\* ------------------------------------------------------------------------

Digits == <<"0", "1", "2", "3", "4", "5", "6", "7", "8", "9">>

IsDigit(ch) == \E i \in 1..10 : Digits[i] = ch

DigitVal(ch) == (CHOOSE i \in 1..10 : Digits[i] = ch) - 1

IsSpace(ch) == ch \in {" ", "\t"}

\* strings.HasPrefix
HasPrefix(s, p) == Len(s) >= Len(p) /\ SubSeq(s, 1, Len(p)) = p

\* strings.TrimSpace
RECURSIVE TrimLeft(_)
TrimLeft(s) == IF s # <<>> /\ IsSpace(s[1]) THEN TrimLeft(Tail(s)) ELSE s

RECURSIVE TrimRight(_)
TrimRight(s) ==
  IF s # <<>> /\ IsSpace(s[Len(s)]) THEN TrimRight(SubSeq(s, 1, Len(s) - 1)) ELSE s

TrimSpace(s) == TrimRight(TrimLeft(s))

\* strings.Split(s, ","): always at least one (possibly empty) field
RECURSIVE Split(_)
Split(s) ==
  IF \E i \in 1..Len(s) : s[i] = ","
  THEN LET i == CHOOSE k \in 1..Len(s) : s[k] = "," /\ \A j \in 1..(k - 1) : s[j] # ","
       IN  <<SubSeq(s, 1, i - 1)>> \o Split(SubSeq(s, i + 1, Len(s)))
  ELSE <<s>>

\* strconv.Atoi on an unsigned decimal; the second component is the error flag
RECURSIVE AtoiDigits(_, _)
AtoiDigits(s, acc) ==
  IF s = <<>> THEN acc ELSE AtoiDigits(Tail(s), acc * 10 + DigitVal(s[1]))

Atoi(s) ==
  IF s # <<>> /\ \A i \in 1..Len(s) : IsDigit(s[i])
  THEN <<AtoiDigits(s, 0), FALSE>>
  ELSE <<0, TRUE>>

\* strconv.Itoa on a non-negative integer
RECURSIVE Itoa(_)
Itoa(n) == IF n < 10 THEN <<Digits[n + 1]>> ELSE Itoa(n \div 10) \o <<Digits[(n % 10) + 1]>>

\* http.Header.Get: the first value of the key, "" when there is none
Get(vals) == IF vals = <<>> THEN <<>> ELSE vals[1]

\* ------------------------------------------------------------------------
\* Negotiation
\* ------------------------------------------------------------------------

\* a variant that accepts a token beginning with a name, e.g. "gzip;q=0"
MatchName_prefix(e) ==
  IF \E i \in 2..Len(compStrings) : HasPrefix(e, compStrings[i])
  THEN (CHOOSE i \in 2..Len(compStrings) :
          HasPrefix(e, compStrings[i])
          /\ \A j \in 2..(i - 1) : ~HasPrefix(e, compStrings[j])) - 1
  ELSE -1

\* the inner loop of checkAcceptEncoding: index of the first name equal to e
MatchName(e) ==
  IF \E i \in 1..Len(compStrings) : compStrings[i] = e
  THEN (CHOOSE i \in 1..Len(compStrings) :
          compStrings[i] = e /\ \A j \in 1..(i - 1) : compStrings[j] # e) - 1
  ELSE -1

RECURSIVE FirstMatch(_)
FirstMatch(encs) ==
  IF encs = <<>> THEN compNone
  ELSE LET m == MatchName(TrimSpace(encs[1]))
       IN  IF m # -1 THEN m ELSE FirstMatch(Tail(encs))

checkAcceptEncoding(aeVals) == FirstMatch(Split(Get(aeVals)))

\* ------------------------------------------------------------------------
\* Response headers and the eligibility check
\* ------------------------------------------------------------------------

hdrContentEncoding == "Content-Encoding"

hdrContentLength == "Content-Length"

hdrContentType == "Content-Type"

hdrTrailer == "Trailer"

hdrVary == "Vary"

HdrKeys == {hdrContentEncoding, hdrContentLength, hdrContentType, hdrTrailer, hdrVary}

\* an empty http.Header
NoHeaders == [k \in HdrKeys |-> <<>>]

\* http.Header.Set and http.Header.Del
HSet(h, k, v) == [h EXCEPT ![k] = <<v>>]

HDel(h, k) == [h EXCEPT ![k] = <<>>]

checkHeaderHas(h, key) == Get(h[key]) # <<>>

getContentLength(h) == Atoi(Get(h[hdrContentLength]))[1]

isCompressableType(h) ==
  LET mtype == Get(h[hdrContentType])
  IN  \/ HasPrefix(mtype, <<"t", "e", "x", "t", "/">>)
      \/ HasPrefix(mtype, <<"i", "m", "a", "g", "e", "/", "s", "v", "g">>)
      \/ HasPrefix(mtype, <<"a", "p", "p", "l", "i", "c", "a", "t", "i", "o", "n", "/",
                            "j", "a", "v", "a", "s", "c", "r", "i", "p", "t">>)
      \/ HasPrefix(mtype, <<"a", "p", "p", "l", "i", "c", "a", "t", "i", "o", "n", "/",
                            "x", "-", "j", "a", "v", "a", "s", "c", "r", "i", "p", "t">>)

\* a variant that compresses whatever the status code
checkIsCompressable_anyStatus(code, h) ==
  /\ getContentLength(h) >= CompressMinLength
  /\ ~checkHeaderHas(h, hdrTrailer)
  /\ ~checkHeaderHas(h, hdrContentEncoding)
  /\ isCompressableType(h)

\* a variant without the lower bound on the declared length
checkIsCompressable_noMinLength(code, h) ==
  /\ code = StatusOK
  /\ ~checkHeaderHas(h, hdrTrailer)
  /\ ~checkHeaderHas(h, hdrContentEncoding)
  /\ isCompressableType(h)

checkIsCompressable(code, h) ==
  /\ code = StatusOK
  /\ getContentLength(h) >= CompressMinLength
  /\ ~checkHeaderHas(h, hdrTrailer)
  /\ ~checkHeaderHas(h, hdrContentEncoding)
  /\ isCompressableType(h)

\* ------------------------------------------------------------------------
\* Errors: nil is the empty tuple; errors.Wrap prefixes the message and
\* keeps the cause, and wraps nil to nil
\* ------------------------------------------------------------------------

Nil == <<>>

Wrap(err, msg) == IF err = Nil THEN Nil ELSE <<msg>> \o err

\* the k-th error of the network connection
NetErr(k) == <<"connection error">> \o Itoa(k)

\* compress/flate's error for a write or flush after Close
ErrWriterClosed == <<"flate: closed writer">>

\* ------------------------------------------------------------------------
\* The network connection (the wrapped http.ResponseWriter).  Its header
\* lines are fixed by the first WriteHeader, which a first Write or Flush
\* performs implicitly with status 200; later header changes are not sent.
\* `calls` counts the calls made on it, `lastCode` is the status code of the
\* latest WriteHeader call.
\* Body elements are <<kind, payload>>: a raw byte or a compressor token.
\* ------------------------------------------------------------------------

NoCalls == [WriteHeader |-> 0, Write |-> 0, Flush |-> 0]

NewConn ==
  [committed |-> FALSE, code |-> 0, hdr |-> NoHeaders, body |-> <<>>, calls |-> NoCalls,
   lastCode |-> 0]

Commit(s, h, code) ==
  IF s.committed THEN s ELSE [s EXCEPT !.committed = TRUE, !.code = code, !.hdr = h]

RwWriteHeader(s, h, code) ==
  [Commit(s, h, code) EXCEPT !.calls.WriteHeader = @ + 1, !.lastCode = code]

\* fail: the connection rejects the write and accepts nothing
RwWrite(s, h, data, fail) ==
  [Commit(s, h, StatusOK) EXCEPT
     !.body = IF fail THEN @ ELSE @ \o data,
     !.calls.Write = @ + 1]

RwFlush(s, h) == [Commit(s, h, StatusOK) EXCEPT !.calls.Flush = @ + 1]

\* the handler's bytes as body elements
Raw(p) == [i \in 1..Len(p) |-> <<"raw", <<p[i]>>>>]

\* ------------------------------------------------------------------------
\* State
\* ------------------------------------------------------------------------

VARIABLES
  pc,         \* position of the closure of New: "start", "handler", "closing", "done"
  reqAE,      \* the request's Accept-Encoding header (list of values)
  comp,       \* the negotiated compType
  isFlusher,  \* whether the network connection implements http.Flusher
  hdr,        \* the response header map, shared by handler, sink and connection
  crw,        \* the compressResponseWriter's fields
  rw,         \* the network connection
  nfail,      \* errors the connection has produced so far
  ops,        \* calls the handler has made so far
  last,       \* the last call made on the sink (or its header map) and what it returned
  hw,         \* bytes the handler passed to the sink's Write before its first Close returned
  first,      \* status code and headers as they stood at the sink's first commit
  closes,     \* Close calls that have returned: by anyone, and by New's defer
  ref,        \* the same handler calls applied to a bare connection (no interceptor)
  outcome,    \* how the handler ended, what New logged, what New's caller sees
  aeToks      \* the tokens the client joined into its Accept-Encoding value

vars == <<pc, reqAE, comp, isFlusher, hdr, crw, rw, nfail, ops, last, hw, first,
          closes, ref, outcome, aeToks>>

\* ------------------------------------------------------------------------
\* The compressor (compress/gzip and compress/flate behind writeCloseFlusher).
\* It holds written bytes in `pending` and emits tokens to its underlying
\* writer: the gzip header before anything else, a block of pending bytes,
\* a sync marker on Flush, the final block on Close and then the gzip
\* trailer carrying the byte count (a uint32; the bodies here stay far below
\* its range).
\* ------------------------------------------------------------------------

NilZ == [open |-> FALSE, target |-> "", hdrDone |-> FALSE, pending |-> <<>>,
         size |-> 0, closed |-> FALSE, err |-> Nil]

getCompressor(c, target) ==
  IF c \in {compGzip, compDeflate}
  THEN <<[NilZ EXCEPT !.open = TRUE, !.target = target], Wrap(Nil, "Opening compressor failed")>>
  ELSE <<NilZ, Wrap(<<"Unknown compressor type">>, "Opening compressor failed")>>

GzipHeader(c, z) == IF c = compGzip /\ ~z.hdrDone THEN << <<"gzip-header", <<>>>> >> ELSE <<>>

Block(data) == IF data = <<>> THEN <<>> ELSE << <<"block", data>> >>

GzipTrailer(c, z) == IF c = compGzip THEN << <<"gzip-trailer", <<z.size>>>> >> ELSE <<>>

\* length in bytes of a body element
TokLen(t) ==
  CASE t[1] = "raw" -> 1
    [] t[1] = "gzip-header" -> 10
    [] t[1] = "gzip-trailer" -> 8
    [] t[1] = "block" -> 1 + Len(t[2])
    [] OTHER -> 5

RECURSIVE ByteLen(_)
ByteLen(toks) == IF toks = <<>> THEN 0 ELSE TokLen(toks[1]) + ByteLen(Tail(toks))

\* The compressor writes `out` to its underlying writer: the in-memory
\* buffer, which never fails, or the connection.  Result: <<world, error>>.
ZEmit(w, out, fail) ==
  IF out = <<>> THEN <<w, Nil>>
  ELSE IF w.crw.z.target = "buf"
  THEN <<[w EXCEPT !.crw.buf = @ \o out], Nil>>
  ELSE IF fail
  THEN <<[w EXCEPT !.rw = RwWrite(@, w.hdr, out, TRUE), !.nfail = @ + 1], NetErr(w.nfail + 1)>>
  ELSE <<[w EXCEPT !.rw = RwWrite(@, w.hdr, out, FALSE)], Nil>>

\* z.Write(p); emit: the compressor's window is full and it writes a block.
\* Result: <<world, n, error>>.
ZWrite(w, p, emit, fail) ==
  LET z == w.crw.z
      c == w.crw.c
  IN  IF z.err # Nil THEN <<w, 0, z.err>>
      ELSE IF z.closed
      THEN <<[w EXCEPT !.crw.z.err = ErrWriterClosed], 0, ErrWriterClosed>>
      ELSE LET out == GzipHeader(c, z) \o (IF emit THEN Block(z.pending \o p) ELSE <<>>)
               e == ZEmit(w, out, fail)
               z1 == [z EXCEPT !.hdrDone = (c = compGzip),
                               !.pending = IF emit THEN <<>> ELSE @ \o p,
                               !.size = @ + Len(p),
                               !.err = e[2]]
           IN  <<[e[1] EXCEPT !.crw.z = z1], IF e[2] = Nil THEN Len(p) ELSE 0, e[2]>>

\* z.Flush().  Result: <<world, error>>.
ZFlush(w, fail) ==
  LET z == w.crw.z
      c == w.crw.c
  IN  IF z.err # Nil THEN <<w, z.err>>
      ELSE IF z.closed
      THEN IF c = compGzip THEN <<w, Nil>>
           ELSE <<[w EXCEPT !.crw.z.err = ErrWriterClosed], ErrWriterClosed>>
      ELSE LET out == GzipHeader(c, z) \o Block(z.pending) \o << <<"sync", <<>>>> >>
               e == ZEmit(w, out, fail)
               z1 == [z EXCEPT !.hdrDone = (c = compGzip), !.pending = <<>>, !.err = e[2]]
           IN  <<[e[1] EXCEPT !.crw.z = z1], e[2]>>

\* z.Close().  Result: <<world, error>>.
ZClose(w, fail) ==
  LET z == w.crw.z
      c == w.crw.c
  IN  IF z.closed /\ (c = compDeflate \/ z.err = Nil) THEN <<w, Nil>>
      ELSE IF z.err # Nil THEN <<w, z.err>>
      ELSE LET out == GzipHeader(c, z) \o Block(z.pending) \o << <<"final", <<>>>> >>
                        \o GzipTrailer(c, z)
               e == ZEmit(w, out, fail)
               z1 == [z EXCEPT !.hdrDone = (c = compGzip), !.pending = <<>>,
                               !.closed = (c = compGzip \/ e[2] = Nil), !.err = e[2]]
           IN  <<[e[1] EXCEPT !.crw.z = z1], e[2]>>

\* ------------------------------------------------------------------------
\* compressResponseWriter.  A world is [crw, hdr, rw, nfail]; crw.w names
\* the writer everything is written to: "rw" (the connection) or "z".
\* ------------------------------------------------------------------------

newCompressResponseWriter(c) ==
  [z |-> NilZ, buf |-> <<>>, w |-> "nil", c |-> c, code |-> 0, err |-> Nil,
   wroteHeader |-> FALSE, isBuffered |-> FALSE]

World == [crw |-> crw, hdr |-> hdr, rw |-> rw, nfail |-> nfail]

\* the header updates of an activated compression
UpdateHeaders(h, c) ==
  HSet(HSet(HDel(h, hdrContentLength), hdrContentEncoding, String(c)), hdrVary, hdrAcceptEncoding)

\* a variant that still buffers a response of exactly CompressMaxBuf bytes
FirstWriteHeader_ceilingInclusive(w, code) ==
  LET ok == checkIsCompressable(code, w.hdr)
      buffered == ok /\ getContentLength(w.hdr) <= CompressMaxBuf
      gc == getCompressor(w.crw.c, IF buffered THEN "buf" ELSE "rw")
      crw1 == [w.crw EXCEPT
                 !.wroteHeader = TRUE,
                 !.w = IF ok THEN "z" ELSE "rw",
                 !.code = IF buffered THEN code ELSE @,
                 !.isBuffered = buffered \/ @,
                 !.z = IF ok THEN gc[1] ELSE @,
                 !.err = IF ok THEN gc[2] ELSE @]
      h1 == IF ok THEN UpdateHeaders(w.hdr, w.crw.c) ELSE w.hdr
  IN  [w EXCEPT !.crw = crw1,
                !.hdr = h1,
                !.rw = IF crw1.isBuffered THEN @ ELSE RwWriteHeader(@, h1, code)]

\* a variant that marks the sink buffered but binds the compressor to the
\* connection
FirstWriteHeader_bufferedToConn(w, code) ==
  LET ok == checkIsCompressable(code, w.hdr)
      buffered == ok /\ getContentLength(w.hdr) < CompressMaxBuf
      gc == getCompressor(w.crw.c, "rw")
      crw1 == [w.crw EXCEPT
                 !.wroteHeader = TRUE,
                 !.w = IF ok THEN "z" ELSE "rw",
                 !.code = IF buffered THEN code ELSE @,
                 !.isBuffered = buffered \/ @,
                 !.z = IF ok THEN gc[1] ELSE @,
                 !.err = IF ok THEN gc[2] ELSE @]
      h1 == IF ok THEN UpdateHeaders(w.hdr, w.crw.c) ELSE w.hdr
  IN  [w EXCEPT !.crw = crw1,
                !.hdr = h1,
                !.rw = IF crw1.isBuffered THEN @ ELSE RwWriteHeader(@, h1, code)]

\* WriteHeader past its wroteHeader check
FirstWriteHeader(w, code) ==
  LET ok == checkIsCompressable(code, w.hdr)
      buffered == ok /\ getContentLength(w.hdr) < CompressMaxBuf
      gc == getCompressor(w.crw.c, IF buffered THEN "buf" ELSE "rw")
      crw1 == [w.crw EXCEPT
                 !.wroteHeader = TRUE,
                 !.w = IF ok THEN "z" ELSE "rw",
                 !.code = IF buffered THEN code ELSE @,
                 !.isBuffered = buffered \/ @,
                 !.z = IF ok THEN gc[1] ELSE @,
                 !.err = IF ok THEN gc[2] ELSE @]
      h1 == IF ok THEN UpdateHeaders(w.hdr, w.crw.c) ELSE w.hdr
  IN  [w EXCEPT !.crw = crw1,
                !.hdr = h1,
                !.rw = IF crw1.isBuffered THEN @ ELSE RwWriteHeader(@, h1, code)]

\* a variant that commits again on every call
WriteHeader_noGuard(w, code) == FirstWriteHeader(w, code)

WriteHeader(w, code) == IF w.crw.wroteHeader THEN w ELSE FirstWriteHeader(w, code)

\* crw.w.Write(p).  Result: <<world, n, error>>.
WriteTo_w(w, p, emit, fail) ==
  IF w.crw.w = "z" THEN ZWrite(w, p, emit, fail)
  ELSE IF fail
  THEN <<[w EXCEPT !.rw = RwWrite(@, w.hdr, Raw(p), TRUE), !.nfail = @ + 1],
         0, NetErr(w.nfail + 1)>>
  ELSE <<[w EXCEPT !.rw = RwWrite(@, w.hdr, Raw(p), FALSE)], Len(p), Nil>>

\* Write past its error check.  Result: <<world, n, error>>.
WriteThrough(w, p, emit, fail) ==
  LET w1 == IF ~w.crw.wroteHeader THEN WriteHeader(w, StatusOK) ELSE w
      r == WriteTo_w(w1, p, emit, fail)
      err == Wrap(r[3], "Write in compressResponseWriter failed")
  IN  <<[r[1] EXCEPT !.crw.err = err], r[2], err>>

\* a variant that goes on writing after an error
Write_noSticky(w, p, emit, fail) == WriteThrough(w, p, emit, fail)

\* Result: <<world, n, error>>.
Write(w, p, emit, fail) ==
  IF w.crw.err # Nil THEN <<w, 0, w.crw.err>> ELSE WriteThrough(w, p, emit, fail)

\* flusher.Flush() when the connection is an http.Flusher
FlushConn(w) == IF isFlusher THEN [w EXCEPT !.rw = RwFlush(@, w.hdr)] ELSE w

Flush(w, fail) ==
  IF w.crw.err # Nil THEN w
  ELSE LET w1 == IF w.crw.z.open
                 THEN LET r == ZFlush(w, fail)
                      IN  [r[1] EXCEPT !.crw.err =
                             Wrap(r[2], "Flushing compressResponseWriter failed")]
                 ELSE w
       IN  FlushConn(w1)

\* crw.buf.WriteTo(crw.ResponseWriter): one Write of the whole buffer, none
\* when the buffer is empty.  Result: <<world, error>>.
BufWriteTo(w, fail) ==
  IF w.crw.buf = <<>> THEN <<w, Nil>>
  ELSE IF fail
  THEN <<[w EXCEPT !.rw = RwWrite(@, w.hdr, w.crw.buf, TRUE), !.nfail = @ + 1],
         NetErr(w.nfail + 1)>>
  ELSE <<[w EXCEPT !.rw = RwWrite(@, w.hdr, w.crw.buf, FALSE), !.crw.buf = <<>>], Nil>>

\* the buffered branch of Close.  Result: <<world, error>>.
CloseBuffered(w, fail) ==
  LET h1 == HSet(w.hdr, hdrContentLength, Itoa(ByteLen(w.crw.buf)))
      w1 == [w EXCEPT !.hdr = h1, !.rw = RwWriteHeader(@, h1, w.crw.code)]
      r == BufWriteTo(w1, fail)
  IN  <<[r[1] EXCEPT !.crw.err = r[2]], r[2]>>

\* a variant that forgets to close the compressor
Close_noZClose(w, fail) ==
  IF w.crw.err # Nil THEN <<w, w.crw.err>>
  ELSE IF ~w.crw.z.open THEN <<FlushConn(w), Nil>>
  ELSE IF w.crw.isBuffered
  THEN LET b == CloseBuffered(w, fail) IN <<FlushConn(b[1]), b[2]>>
  ELSE <<FlushConn(w), Nil>>

\* Result: <<world, error>>; the deferred flush runs on every path past its defer.
Close(w, fail) ==
  IF w.crw.err # Nil THEN <<w, w.crw.err>>
  ELSE IF ~w.crw.z.open THEN <<FlushConn(w), Nil>>
  ELSE LET r == ZClose(w, fail)
           err == Wrap(r[2], "Closing compressResponseWriter failed")
           w1 == [r[1] EXCEPT !.crw.err = err]
       IN  IF err # Nil THEN <<FlushConn(w1), err>>
           ELSE IF w1.crw.isBuffered
           THEN LET b == CloseBuffered(w1, fail) IN <<FlushConn(b[1]), b[2]>>
           ELSE <<FlushConn(w1), Nil>>

\* ------------------------------------------------------------------------
\* Inputs
\* ------------------------------------------------------------------------

\* tokens a client may list in Accept-Encoding
NegTokens ==
  { hdrContentEncodingGzip,
    hdrContentEncodingDeflate,
    <<"n", "o", "n", "e">>,
    <<"b", "r">>,
    <<" ", "g", "z", "i", "p", " ">>,
    <<"G", "Z", "I", "P">>,
    <<"g", "z", "i", "p", ";", "q", "=", "0">>,
    <<>> }

RECURSIVE SeqsUpTo(_, _)
SeqsUpTo(S, n) ==
  IF n = 0 THEN {<<>>}
  ELSE LET R == SeqsUpTo(S, n - 1)
       IN  R \cup {Append(r, x) : r \in {q \in R : Len(q) = n - 1}, x \in S}

RECURSIVE Join(_)
Join(toks) ==
  IF Len(toks) = 1 THEN toks[1] ELSE toks[1] \o <<",">> \o Join(Tail(toks))

\* the header a client sends for a token list; no token, no header
HeaderOf(toks) == IF toks = <<>> THEN <<>> ELSE <<Join(toks)>>

\* token lists of the requests of the main specification
MainAE ==
  { <<>>,
    << <<"g", "z", "i", "p", ";", "q", "=", "0">> >>,
    << hdrContentEncodingGzip >>,
    << hdrContentEncodingDeflate >> }

\* what the handler passes to Write
Chunks == { <<1>>, <<2, 3>> }

\* status codes the handler commits
Codes == {StatusOK, 404}

\* header values the handler sets
HeaderVals(k) ==
  CASE k = hdrContentLength ->
         { <<"1", "0">>, <<"2", "5", "6">>, <<"1", "6", "3", "8", "4">> }
    [] k = hdrContentType ->
         { <<"t", "e", "x", "t", "/", "p", "l", "a", "i", "n">>,
           <<"a", "p", "p", "l", "i", "c", "a", "t", "i", "o", "n", "/",
             "o", "c", "t", "e", "t", "-", "s", "t", "r", "e", "a", "m">> }
    [] k = hdrContentEncoding -> { <<"b", "r">> }
    [] k = hdrTrailer -> { <<"E", "x", "p", "i", "r", "e", "s">> }
    [] OTHER -> { <<"C", "o", "o", "k", "i", "e">> }

Fails == IF nfail < MaxFail THEN BOOLEAN ELSE {FALSE}

\* ------------------------------------------------------------------------
\* Bookkeeping of what the properties speak about
\* ------------------------------------------------------------------------

NoCall == [op |-> "", by |-> "", code |-> 0, p |-> <<>>, n |-> 0, ret |-> Nil]

Call(op, by, code, p, n, ret) ==
  [op |-> op, by |-> by, code |-> code, p |-> p, n |-> n, ret |-> ret]

\* the request lists neither gzip nor deflate
NoCodecToken ==
  \A i \in 1..Len(aeToks) :
    TrimSpace(aeToks[i]) \notin {hdrContentEncodingGzip, hdrContentEncodingDeflate}

Apply(w) == /\ crw' = w.crw
            /\ hdr' = w.hdr
            /\ rw' = w.rw
            /\ nfail' = w.nfail

\* remember status code and headers of the sink's first commit
NoteFirst(w, code) ==
  first' = IF ~crw.wroteHeader /\ w.crw.wroteHeader
           THEN [done |-> TRUE, code |-> code, hdr |-> hdr]
           ELSE first

\* ------------------------------------------------------------------------
\* New: negotiation, then the handler on the bare connection or on the sink
\* ------------------------------------------------------------------------

Wrapped == comp # compNone

NewStart ==
  /\ pc = "start"
  /\ comp' = checkAcceptEncoding(reqAE)
  /\ crw' = newCompressResponseWriter(comp')
  /\ pc' = "handler"
  /\ UNCHANGED <<reqAE, isFlusher, hdr, rw, nfail, ops, last, hw, first, closes, ref,
                 outcome, aeToks>>

InHandler == pc = "handler" /\ ops < MaxOps

\* w.Header().Set(k, v)
HSetHeader(k, v) ==
  /\ InHandler
  /\ hdr' = HSet(hdr, k, v)
  /\ ref' = IF NoCodecToken THEN [ref EXCEPT !.hdr = HSet(@, k, v)] ELSE ref
  /\ ops' = ops + 1
  /\ last' = IF Wrapped THEN Call("SetHeader", "handler", 0, <<>>, 0, Nil) ELSE last
  /\ UNCHANGED <<pc, reqAE, comp, isFlusher, crw, rw, nfail, hw, first, closes, outcome,
                 aeToks>>

\* w.WriteHeader(code)
HWriteHeader(code) ==
  /\ InHandler
  /\ IF Wrapped
     THEN LET w == WriteHeader(World, code) IN Apply(w) /\ NoteFirst(w, code)
     ELSE /\ rw' = RwWriteHeader(rw, hdr, code)
          /\ UNCHANGED <<crw, hdr, nfail, first>>
  /\ ref' = IF NoCodecToken
            THEN [ref EXCEPT !.conn = RwWriteHeader(@, ref.hdr, code)]
            ELSE ref
  /\ ops' = ops + 1
  /\ last' = IF Wrapped THEN Call("WriteHeader", "handler", code, <<>>, 0, Nil) ELSE last
  /\ UNCHANGED <<pc, reqAE, comp, isFlusher, hw, closes, outcome, aeToks>>

\* w.Write(p)
HWrite(p, emit, fail) ==
  /\ InHandler
  /\ IF Wrapped
     THEN LET r == Write(World, p, emit, fail)
          IN  /\ Apply(r[1])
              /\ NoteFirst(r[1], StatusOK)
              /\ last' = Call("Write", "handler", 0, p, r[2], r[3])
     ELSE /\ rw' = RwWrite(rw, hdr, Raw(p), fail)
          /\ nfail' = IF fail THEN nfail + 1 ELSE nfail
          /\ UNCHANGED <<crw, hdr, first, last>>
  /\ ref' = IF NoCodecToken
            THEN [ref EXCEPT !.conn = RwWrite(@, ref.hdr, Raw(p), fail)]
            ELSE ref
  /\ hw' = IF Wrapped /\ closes.all = 0 THEN hw \o p ELSE hw
  /\ ops' = ops + 1
  /\ UNCHANGED <<pc, reqAE, comp, isFlusher, closes, outcome, aeToks>>

\* w.(http.Flusher).Flush(): the sink always has the method, the bare
\* connection only when it is a Flusher
HFlush(fail) ==
  /\ InHandler
  /\ Wrapped \/ isFlusher
  /\ IF Wrapped
     THEN Apply(Flush(World, fail))
     ELSE rw' = RwFlush(rw, hdr) /\ UNCHANGED <<crw, hdr, nfail>>
  /\ ref' = IF NoCodecToken /\ isFlusher
            THEN [ref EXCEPT !.conn = RwFlush(@, ref.hdr)]
            ELSE ref
  /\ ops' = ops + 1
  /\ last' = IF Wrapped THEN Call("Flush", "handler", 0, <<>>, 0, Nil) ELSE last
  /\ UNCHANGED <<pc, reqAE, comp, isFlusher, hw, first, closes, outcome, aeToks>>

\* w.(io.Closer).Close(): only the sink has the method
HClose(fail) ==
  /\ InHandler
  /\ Wrapped
  /\ LET r == Close(World, fail)
     IN  Apply(r[1]) /\ last' = Call("Close", "handler", 0, <<>>, 0, r[2])
  /\ closes' = [closes EXCEPT !.all = @ + 1]
  /\ ops' = ops + 1
  /\ UNCHANGED <<pc, reqAE, comp, isFlusher, hw, first, ref, outcome, aeToks>>

\* h.ServeHTTP returns or panics; without a sink New has nothing left to do
HEnd(how) ==
  /\ pc = "handler"
  /\ pc' = IF Wrapped THEN "closing" ELSE "done"
  /\ outcome' = [outcome EXCEPT !.handler = how,
                                !.caller = IF Wrapped THEN @ ELSE how]
  /\ UNCHANGED <<reqAE, comp, isFlusher, hdr, crw, rw, nfail, ops, last, hw, first,
                 closes, ref, aeToks>>

\* the deferred function of New: Close, log its error, go on as the handler ended
DeferredClose(fail) ==
  /\ pc = "closing"
  /\ LET r == Close(World, fail)
     IN  /\ Apply(r[1])
         /\ last' = Call("Close", "New", 0, <<>>, 0, r[2])
         /\ outcome' = [outcome EXCEPT
                          !.logged = IF r[2] # Nil THEN Append(@, r[2]) ELSE @,
                          !.caller = outcome.handler]
  /\ closes' = [all |-> closes.all + 1, deferred |-> closes.deferred + 1]
  /\ pc' = "done"
  /\ UNCHANGED <<reqAE, comp, isFlusher, ops, hw, first, ref, aeToks>>

\* a variant that closes after the handler's return only, not when it panics
NewDeferred_notOnPanic(fail) ==
  IF outcome.handler = "panic"
  THEN /\ pc = "closing"
       /\ pc' = "done"
       /\ outcome' = [outcome EXCEPT !.caller = "panic"]
       /\ UNCHANGED <<reqAE, comp, isFlusher, hdr, crw, rw, nfail, ops, last, hw, first,
                      closes, ref, aeToks>>
  ELSE DeferredClose(fail)

NewDeferred(fail) == DeferredClose(fail)

InitCommon ==
  /\ pc = "start"
  /\ reqAE = HeaderOf(aeToks)
  /\ comp = compNone
  /\ hdr = NoHeaders
  /\ crw = newCompressResponseWriter(compNone)
  /\ rw = NewConn
  /\ nfail = 0
  /\ ops = 0
  /\ last = NoCall
  /\ hw = <<>>
  /\ first = [done |-> FALSE, code |-> 0, hdr |-> NoHeaders]
  /\ closes = [all |-> 0, deferred |-> 0]
  /\ ref = [conn |-> NewConn, hdr |-> NoHeaders]
  /\ outcome = [handler |-> "", logged |-> <<>>, caller |-> ""]

\* the connection of a net/http server is an http.Flusher; the sink also
\* accepts a connection without Flush (see SpecD)
Init ==
  /\ aeToks \in MainAE
  /\ isFlusher = TRUE
  /\ InitCommon

Next ==
  \/ NewStart
  \/ \E k \in HdrKeys : \E v \in HeaderVals(k) : HSetHeader(k, v)
  \/ \E code \in Codes : HWriteHeader(code)
  \/ \E p \in Chunks : \E emit \in BOOLEAN : \E fail \in Fails : HWrite(p, emit, fail)
  \/ \E fail \in Fails : HFlush(fail)
  \/ \E fail \in Fails : HClose(fail)
  \/ \E how \in {"return", "panic"} : HEnd(how)
  \/ \E fail \in Fails : NewDeferred(fail)

Spec == Init /\ [][Next]_vars

\* negotiation alone, over every Accept-Encoding value of up to MaxTokens tokens
InitNeg ==
  /\ aeToks \in SeqsUpTo(NegTokens, MaxTokens)
  /\ isFlusher = TRUE
  /\ InitCommon

NextNeg == NewStart

SpecNeg == InitNeg /\ [][NextNeg]_vars

\* ------------------------------------------------------------------------
\* Scenario A: a gzip client; the handler declares text/plain and
\* Content-Length 10 and writes "0123456789" in one or more pieces.
\* ------------------------------------------------------------------------

\* the bytes of "0123456789"
TenBytes == <<48, 49, 50, 51, 52, 53, 54, 55, 56, 57>>

InitA ==
  /\ aeToks = << hdrContentEncodingGzip >>
  /\ isFlusher = TRUE
  /\ InitCommon

ADeclare(k, v) ==
  /\ hdr[k] = <<>>
  /\ HSetHeader(k, v)

AWrite(n, fail) ==
  /\ hdr[hdrContentType] # <<>>
  /\ hdr[hdrContentLength] # <<>>
  /\ Len(hw) + n <= Len(TenBytes)
  /\ HWrite(SubSeq(TenBytes, Len(hw) + 1, Len(hw) + n), FALSE, fail)

NextA ==
  \/ NewStart
  \/ ADeclare(hdrContentType, <<"t", "e", "x", "t", "/", "p", "l", "a", "i", "n">>)
  \/ ADeclare(hdrContentLength, <<"1", "0">>)
  \/ \E n \in 1..Len(TenBytes) : \E fail \in Fails : AWrite(n, fail)
  \/ \E how \in {"return", "panic"} : HEnd(how)
  \/ \E fail \in Fails : NewDeferred(fail)

SpecA == InitA /\ [][NextA]_vars

\* ------------------------------------------------------------------------
\* Scenario C and its neighbours: a gzip or deflate client; the handler
\* declares text/html and a Content-Length around the two thresholds, then
\* commits, writes and flushes in any order.
\* ------------------------------------------------------------------------

TextHtml == <<"t", "e", "x", "t", "/", "h", "t", "m", "l">>

\* declared lengths: below the minimum, the minimum, just below the
\* buffering ceiling, the ceiling, above it
LengthsC ==
  { <<"2", "5", "5">>, <<"2", "5", "6">>, <<"1", "6", "3", "8", "3">>,
    <<"1", "6", "3", "8", "4">>, <<"2", "0", "0", "0", "0">> }

InitC ==
  /\ aeToks \in { << hdrContentEncodingGzip >>, << hdrContentEncodingDeflate >> }
  /\ isFlusher = TRUE
  /\ InitCommon

NextC ==
  \/ NewStart
  \/ ADeclare(hdrContentType, TextHtml)
  \/ \E v \in LengthsC : ADeclare(hdrContentLength, v)
  \/ HWriteHeader(StatusOK)
  \/ \E p \in Chunks : \E emit \in BOOLEAN : \E fail \in Fails : HWrite(p, emit, fail)
  \/ \E fail \in Fails : HFlush(fail)
  \/ \E how \in {"return", "panic"} : HEnd(how)
  \/ \E fail \in Fails : NewDeferred(fail)

SpecC == InitC /\ [][NextC]_vars

\* ------------------------------------------------------------------------
\* Scenario D: a gzip or deflate client and a handler that writes no byte:
\* it may declare headers, commit and pass empty slices to Write, then it
\* ends and New closes the sink.  The wrapped http.ResponseWriter may or
\* may not be an http.Flusher.
\* ------------------------------------------------------------------------

InitD ==
  /\ aeToks \in { << hdrContentEncodingGzip >>, << hdrContentEncodingDeflate >> }
  /\ isFlusher \in BOOLEAN
  /\ InitCommon

NextD ==
  \/ NewStart
  \/ ADeclare(hdrContentType, <<"t", "e", "x", "t", "/", "p", "l", "a", "i", "n">>)
  \/ \E v \in HeaderVals(hdrContentLength) : ADeclare(hdrContentLength, v)
  \/ \E code \in Codes : HWriteHeader(code)
  \/ \E emit \in BOOLEAN : \E fail \in Fails : HWrite(<<>>, emit, fail)
  \/ \E how \in {"return", "panic"} : HEnd(how)
  \/ \E fail \in Fails : NewDeferred(fail)

SpecD == InitD /\ [][NextD]_vars

\* ------------------------------------------------------------------------
\* What a client and a reader of the response see
\* ------------------------------------------------------------------------

\* the codec of the first listed token that is "gzip" or "deflate"
RECURSIVE FirstCodecToken(_)
FirstCodecToken(toks) ==
  IF toks = <<>> THEN compNone
  ELSE IF TrimSpace(toks[1]) = hdrContentEncodingGzip THEN compGzip
  ELSE IF TrimSpace(toks[1]) = hdrContentEncodingDeflate THEN compDeflate
  ELSE FirstCodecToken(Tail(toks))

\* the declared length as a reader of the header line understands it
DeclaredLength(h) ==
  CASE Get(h[hdrContentLength]) = <<"1", "0">> -> 10
    [] Get(h[hdrContentLength]) = <<"2", "5", "6">> -> 256
    [] Get(h[hdrContentLength]) = <<"1", "6", "3", "8", "4">> -> 16384
    [] Get(h[hdrContentLength]) = <<"2", "5", "5">> -> 255
    [] Get(h[hdrContentLength]) = <<"1", "6", "3", "8", "3">> -> 16383
    [] Get(h[hdrContentLength]) = <<"2", "0", "0", "0", "0">> -> 20000
    [] OTHER -> 0

TextPlain == <<"t", "e", "x", "t", "/", "p", "l", "a", "i", "n">>

\* the five conditions, on the status code and headers of a first commit
Eligible(f) ==
  /\ f.code = 200
  /\ DeclaredLength(f.hdr) >= 256
  /\ f.hdr[hdrContentType] = <<TextPlain>>
  /\ f.hdr[hdrTrailer] = <<>>
  /\ f.hdr[hdrContentEncoding] = <<>>

\* a sink call of the given kind has just returned
SinkCall(op) ==
  /\ last'.op = op
  /\ ops' = ops + 1 \/ (pc = "closing" /\ pc' = "done")

\* the bytes a gzip or deflate reader recovers from a body
RECURSIVE Payload(_)
Payload(body) ==
  IF body = <<>> THEN <<>>
  ELSE (IF body[1][1] = "block" THEN body[1][2] ELSE <<>>) \o Payload(Tail(body))

WellFormed(body, c) ==
  LET n == Len(body)
  IN  IF c = compGzip
      THEN /\ n >= 3
           /\ body[1] = <<"gzip-header", <<>>>>
           /\ \A i \in 2..(n - 2) : body[i][1] \in {"block", "sync"}
           /\ body[n - 1] = <<"final", <<>>>>
           /\ body[n] = <<"gzip-trailer", <<Len(Payload(body))>>>>
      ELSE /\ n >= 1
           /\ \A i \in 1..(n - 1) : body[i][1] \in {"block", "sync"}
           /\ body[n] = <<"final", <<>>>>

\* <<ok, bytes>>
Decompress(body, c) ==
  IF WellFormed(body, c) THEN <<TRUE, Payload(body)>> ELSE <<FALSE, <<>>>>

\* ------------------------------------------------------------------------
\* C5 (checked under SpecNeg).  Negotiation returns the codec of the first
\* token, in the order the client listed them, that after trimming equals
\* "gzip" or "deflate", and None only when no token does: a token that
\* names no codec never stops the search.
\* ------------------------------------------------------------------------
C5_FirstListedCodec == pc = "handler" => comp = FirstCodecToken(aeToks)

\* ------------------------------------------------------------------------
\* C4.  A request that lists neither "gzip" nor "deflate" (or sends no
\* Accept-Encoding) gets the handler on the bare connection: no sink is
\* built, and calls, committed headers, header map and body of the
\* connection are those of the handler run without the interceptor; no
\* Content-Encoding is added.
\* ------------------------------------------------------------------------
C4_NoCodecIsTransparent ==
  NoCodecToken =>
    /\ pc # "start" => ~Wrapped
    /\ crw = newCompressResponseWriter(compNone)
    /\ rw = ref.conn
    /\ hdr = ref.hdr
    /\ closes.all = 0

C4_Witness ==
  /\ NoCodecToken
  /\ aeToks # <<>>
  /\ pc = "done"
  /\ rw.committed
  /\ Eligible([code |-> rw.code, hdr |-> rw.hdr])
  /\ rw.body = Raw(<<1, 2, 3>>)

\* the first Close of the sink has just returned, after the sink's commit,
\* and the connection never failed
ClosedCleanly ==
  /\ Wrapped
  /\ first.done
  /\ closes.all = 1
  /\ last.op = "Close"
  /\ nfail = 0

\* ------------------------------------------------------------------------
\* C1.  For an eligible response under a negotiated codec whose writes are
\* followed by Close, with no error of the connection, the body the
\* connection has received decompresses to exactly the bytes the handler
\* wrote, in call order, none lost or duplicated (buffered and streaming).
\* ------------------------------------------------------------------------
C1_BodyRoundTrip ==
  (ClosedCleanly /\ Eligible(first)) => Decompress(rw.body, comp) = <<TRUE, hw>>

C1_Witness ==
  /\ ClosedCleanly
  /\ Eligible(first)
  /\ crw.isBuffered
  /\ comp = compGzip
  /\ hw = <<1, 2, 3>>
  /\ Len(rw.body) >= 4

\* ------------------------------------------------------------------------
\* C2.  For an eligible response, a Content-Length among the headers the
\* connection committed equals the number of body bytes the connection
\* received (never the declared length), and is absent when streaming.
\* ------------------------------------------------------------------------
C2_LengthMatchesBody ==
  (ClosedCleanly /\ Eligible(first) /\ rw.committed) =>
    /\ rw.hdr[hdrContentLength] # <<>> =>
         rw.hdr[hdrContentLength] = <<Itoa(ByteLen(rw.body))>>
    /\ ~crw.isBuffered => rw.hdr[hdrContentLength] = <<>>

\* ------------------------------------------------------------------------
\* C9.  A response without a Content-Length header that otherwise
\* qualifies is compressed on the fly: the sink streams, Content-Encoding
\* names the codec and the bytes reach the connection through the
\* compressor.
\* ------------------------------------------------------------------------
C9_UnknownLengthIsStreamed ==
  ( /\ Wrapped
    /\ first.done
    /\ first.code = 200
    /\ first.hdr[hdrContentLength] = <<>>
    /\ first.hdr[hdrContentType] = <<TextPlain>>
    /\ first.hdr[hdrTrailer] = <<>>
    /\ first.hdr[hdrContentEncoding] = <<>> ) =>
    /\ crw.z.open
    /\ crw.w = "z"
    /\ ~crw.isBuffered
    /\ rw.committed
    /\ rw.hdr[hdrContentEncoding] = <<String(comp)>>
    /\ \A i \in 1..Len(rw.body) : rw.body[i][1] # "raw"

\* ------------------------------------------------------------------------
\* C3.  When one of the five conditions fails at the first commit, then
\* whatever codec was negotiated and whatever follows: no compressor is
\* ever opened, the commit is forwarded to the connection with the same
\* status code, the sink changes no header (only the handler's own Set
\* does), and every byte a Write accepts is forwarded unchanged.
\* ------------------------------------------------------------------------
Ineligible == Wrapped /\ first.done /\ ~Eligible(first)

C3_NeverCompresses ==
  Ineligible =>
    /\ ~crw.z.open
    /\ crw.w = "rw"
    /\ ~crw.isBuffered
    /\ crw.buf = <<>>
    /\ rw.committed
    /\ rw.calls.WriteHeader >= 1

C3_CommitForwarded ==
  (~first.done /\ Ineligible') =>
    /\ rw'.calls.WriteHeader = rw.calls.WriteHeader + 1
    /\ rw'.lastCode = first'.code
    /\ ~rw.committed => (rw'.code = first'.code /\ rw'.hdr = first'.hdr)
    /\ hdr' = hdr

C3_HeadersUntouched ==
  (Ineligible' /\ hdr' # hdr) => (first.done /\ SinkCall("SetHeader"))

C3_BytesForwarded ==
  (Ineligible' /\ SinkCall("Write")) =>
    rw'.body = rw.body \o Raw(SubSeq(last'.p, 1, last'.n))

C6_FirstErrorReturned ==
  (crw.err = Nil /\ crw'.err # Nil) =>
    /\ SinkCall("Write") \/ SinkCall("Flush") \/ SinkCall("Close")
    /\ ~SinkCall("Flush") => last'.ret = crw'.err

C6_LaterCallsShortCircuit ==
  (Wrapped /\ crw.err # Nil /\ (SinkCall("Write") \/ SinkCall("Flush") \/ SinkCall("Close"))) =>
    /\ crw' = crw
    /\ rw' = rw
    /\ hdr' = hdr
    /\ nfail' = nfail
    /\ last'.op \in {"Write", "Close"} => (last'.ret = crw.err /\ last'.n = 0)

C7_ClosedOnceAfterHandler ==
  /\ pc \in {"start", "handler", "closing"} => (closes.deferred = 0 /\ outcome.logged = <<>>)
  /\ (pc = "done" /\ Wrapped) =>
       /\ closes.deferred = 1
       /\ last.op = "Close" /\ last.by = "New"
       /\ outcome.logged = (IF last.ret = Nil THEN <<>> ELSE <<last.ret>>)
       /\ outcome.caller = outcome.handler

C7_Witness ==
  /\ pc = "done"
  /\ Wrapped
  /\ outcome.handler = "panic"
  /\ closes.deferred = 1
  /\ outcome.logged = << NetErr(1) >>

\* ------------------------------------------------------------------------
\* C8.  Header commit is idempotent: a WriteHeader on a sink that has
\* committed, with the same or another status code, changes nothing in
\* the sink, the headers or the connection, and the eligibility verdict
\* of the first commit stands.
\* ------------------------------------------------------------------------
C8_SecondCommitStep ==
  (Wrapped /\ crw.wroteHeader /\ SinkCall("WriteHeader")) =>
    /\ crw' = crw
    /\ hdr' = hdr
    /\ rw' = rw
    /\ first' = first

C8_CommitIdempotent == [][C8_SecondCommitStep]_vars

C8_Witness ==
  /\ Wrapped
  /\ first.done
  /\ first.code = StatusOK
  /\ last.op = "WriteHeader"
  /\ last.code = 404
  /\ rw.code = StatusOK
  /\ rw.calls.WriteHeader = 1

\* ------------------------------------------------------------------------
\* C10 (checked under SpecA).  Scenario A as stated: the delivered
\* response carries Content-Encoding: gzip, a delivered Content-Length
\* equals the delivered body length, and the body decompresses to
\* "0123456789".
\* ------------------------------------------------------------------------
ScenarioADone ==
  /\ pc = "done"
  /\ comp = compGzip
  /\ first.hdr[hdrContentType] = <<TextPlain>>
  /\ first.hdr[hdrContentLength] = << <<"1", "0">> >>
  /\ hw = TenBytes
  /\ nfail = 0

C10_ScenarioA_AsStated ==
  ScenarioADone =>
    /\ rw.hdr[hdrContentEncoding] = << hdrContentEncodingGzip >>
    /\ rw.hdr[hdrContentLength] # <<>> =>
         rw.hdr[hdrContentLength] = <<Itoa(ByteLen(rw.body))>>
    /\ Decompress(rw.body, compGzip) = <<TRUE, TenBytes>>

\* C10 as amended: the declared length 10 is below CompressMinLength, so
\* the response passes through: no Content-Encoding, Content-Length 10
\* equal to the delivered body length, and the body is "0123456789" itself.
C10_ScenarioA_PassesThrough ==
  ScenarioADone =>
    /\ rw.hdr[hdrContentEncoding] = <<>>
    /\ rw.hdr[hdrContentLength] = <<Itoa(ByteLen(rw.body))>>
    /\ ByteLen(rw.body) = 10
    /\ rw.body = Raw(TenBytes)
    /\ ~crw.z.open

C10_Witness ==
  /\ ScenarioADone
  /\ rw.calls.Write = 2
  /\ rw.code = StatusOK
  /\ outcome.handler = "return"

\* ------------------------------------------------------------------------
\* C11 (checked under SpecC).  For every eligible response the sink
\* buffers exactly when the declared Content-Length is strictly below
\* CompressMaxBuf (16384) and streams otherwise.  When it streams, the
\* commit call itself forwards the commit to the connection with the same
\* status code, with Content-Encoding naming the codec and without
\* Content-Length (these are the header lines the connection sends when
\* this commit is its first), and the in-memory buffer never holds a byte.
\* ------------------------------------------------------------------------

\* the five conditions for a text/html response
EligibleHtml(f) ==
  /\ f.code = 200
  /\ DeclaredLength(f.hdr) >= 256
  /\ f.hdr[hdrContentType] = <<TextHtml>>
  /\ f.hdr[hdrTrailer] = <<>>
  /\ f.hdr[hdrContentEncoding] = <<>>

C11_Decision ==
  (Wrapped /\ first.done /\ EligibleHtml(first)) =>
    /\ crw.z.open /\ crw.w = "z"
    /\ crw.isBuffered <=> DeclaredLength(first.hdr) < 16384
    /\ crw.isBuffered => crw.z.target = "buf"
    /\ ~crw.isBuffered =>
         /\ crw.z.target = "rw"
         /\ crw.buf = <<>>
         /\ rw.committed
         /\ rw.calls.WriteHeader = 1

C11_StreamingCommitStep ==
  (~first.done /\ first'.done /\ EligibleHtml(first') /\ ~crw'.isBuffered) =>
    /\ rw'.calls.WriteHeader = rw.calls.WriteHeader + 1
    /\ rw'.lastCode = first'.code
    /\ hdr'[hdrContentEncoding] = <<String(comp)>>
    /\ hdr'[hdrContentLength] = <<>>
    /\ ~rw.committed => (rw'.hdr = hdr' /\ rw'.code = first'.code)

ScenarioDDone ==
  /\ pc = "done"
  /\ Wrapped
  /\ hw = <<>>
  /\ nfail = 0

C12_ScenarioD_CommittedOnce ==
  ScenarioDDone =>
    /\ last.op = "Close" /\ last.ret = Nil
    /\ crw.err = Nil /\ crw.z.err = Nil
    /\ rw.committed
    /\ rw.calls.WriteHeader <= 1

\* ------------------------------------------------------------------------
\* C13.  When compression activates at the commit, Accept-Encoding is
\* appended to Vary: every name the handler's Vary values listed before
\* the commit is still listed afterwards, together with Accept-Encoding;
\* apart from that the commit removes Content-Length, sets
\* Content-Encoding to the codec name and changes no other header.
\* ------------------------------------------------------------------------

\* the header values list the name, as a value or as a comma-separated field
Lists(vals, name) ==
  \E i \in 1..Len(vals) :
    \E j \in 1..Len(Split(vals[i])) : TrimSpace(Split(vals[i])[j]) = name

C13_ActivationStep ==
  (Wrapped /\ ~crw.wroteHeader /\ crw'.wroteHeader /\ crw'.z.open) =>
    /\ \A i \in 1..Len(hdr[hdrVary]) :
         \A j \in 1..Len(Split(hdr[hdrVary][i])) :
           Lists(hdr'[hdrVary], TrimSpace(Split(hdr[hdrVary][i])[j]))
    /\ Lists(hdr'[hdrVary], hdrAcceptEncoding)
    /\ hdr'[hdrContentLength] = <<>>
    /\ hdr'[hdrContentEncoding] = <<String(comp)>>
    /\ hdr'[hdrContentType] = hdr[hdrContentType]
    /\ hdr'[hdrTrailer] = hdr[hdrTrailer]

C13_VaryAppended == [][C13_ActivationStep]_vars

\* ------------------------------------------------------------------------
\* C14.  Closed is terminal: once a Close of the sink has returned, a
\* later Write, WriteHeader or Close on it forwards no commit and no body
\* byte to the connection and changes no response header, whether the
\* sink compresses or passes through.
\* ------------------------------------------------------------------------
C14_StepAfterClose ==
  ( /\ Wrapped
    /\ closes.all >= 1
    /\ SinkCall("Write") \/ SinkCall("WriteHeader") \/ SinkCall("Close") ) =>
    /\ rw'.calls.WriteHeader = rw.calls.WriteHeader
    /\ rw'.calls.Write = rw.calls.Write
    /\ rw'.body = rw.body
    /\ hdr' = hdr

C14_ClosedIsTerminal == [][C14_StepAfterClose]_vars

\* ------------------------------------------------------------------------
\* C15.  Over any sequence of SetHeader, WriteHeader, Write, Flush and
\* Close calls on one sink the sink commits at most once (wroteHeader is
\* never reset and the first commit stands), and every header change the
\* sink makes itself (deleting Content-Length, setting Content-Encoding and
\* Vary, setting the computed Content-Length in Close) is made while the
\* connection has neither its header committed nor a body byte received.
\* ------------------------------------------------------------------------
C15_CommitsOnce ==
  /\ crw.wroteHeader => crw'.wroteHeader
  /\ first.done => first' = first
  /\ crw'.wroteHeader = first'.done

C15_SinkHeaderChangeStep ==
  (Wrapped /\ hdr' # hdr /\ ~SinkCall("SetHeader")) =>
    /\ ~rw.committed
    /\ rw.body = <<>>

C15_HeadersBeforeCommit == [][C15_CommitsOnce /\ C15_SinkHeaderChangeStep]_vars

\* ------------------------------------------------------------------------
\* C16.  Every Close of the sink flushes the connection on its way out
\* (when the connection is an http.Flusher), whatever path it takes:
\* compression never activated, compressor closed, closing the compressor
\* or copying the buffer failed, or an error recorded before the call.
\* ------------------------------------------------------------------------
C16_CloseStep ==
  (Wrapped /\ isFlusher /\ SinkCall("Close")) =>
    rw'.calls.Flush = rw.calls.Flush + 1

C16_CloseAlwaysFlushes == [][C16_CloseStep]_vars

\* ------------------------------------------------------------------------
\* C17.  While the sink is buffering, nothing the handler calls (Write,
\* Flush, a repeated WriteHeader) reaches the connection before Close: the
\* connection gets no commit, no body byte and no flush that makes it send
\* its header, so the response stays in memory until Close sets the
\* computed Content-Length, commits the saved status code and copies the
\* buffer, in that order.
\* ------------------------------------------------------------------------

\* the sink buffers and no Close has been called on it
Buffering == Wrapped /\ crw.isBuffered /\ closes.all = 0

C17_HeldUntilClose ==
  /\ Buffering =>
       /\ ~rw.committed
       /\ rw.body = <<>>
       /\ rw.calls = NoCalls
  /\ (Wrapped /\ crw.isBuffered /\ closes.all = 1 /\ last.op = "Close" /\ last.ret = Nil) =>
       /\ rw.hdr[hdrContentLength] = <<Itoa(ByteLen(rw.body))>>
       /\ rw.code = crw.code
       /\ rw.calls.WriteHeader = 1

\* ------------------------------------------------------------------------
\* C18.  In whatever order the handler calls SetHeader, WriteHeader, Write
\* and Flush (a Flush before the first commit or Write included), the
\* header lines the connection fixed when it was first touched agree with
\* the body that follows: they carry Content-Encoding with the codec name
\* if and only if the body bytes the connection receives are compressor
\* output.
\* ------------------------------------------------------------------------
CompressorOutput(body) == \A i \in 1..Len(body) : body[i][1] # "raw"

C18_HeadersAgreeWithBody ==
  (Wrapped /\ rw.committed /\ rw.body # <<>>) =>
    (rw.hdr[hdrContentEncoding] = <<String(comp)>> <=> CompressorOutput(rw.body))

\* ------------------------------------------------------------------------
\* C19.  In every reachable state of a sink buffering and streaming
\* exclude each other and each implies that compression is active (a
\* compressor is open and is the write target); before the first commit
\* neither holds; and the compress / buffer decision is the one taken from
\* the status code and headers of the first commit, whatever headers the
\* handler sets later and whatever calls follow.
\* ------------------------------------------------------------------------

\* the compressor writes into the in-memory buffer
IsBuffering == crw.isBuffered

\* the compressor writes to the connection
IsStreaming == crw.z.open /\ crw.z.target = "rw"

CompressionActive == crw.z.open /\ crw.w = "z"

C19_ModesExclusiveAndPermanent ==
  Wrapped =>
    /\ ~(IsBuffering /\ IsStreaming)
    /\ IsBuffering => (CompressionActive /\ crw.z.target = "buf")
    /\ IsStreaming => CompressionActive
    /\ CompressionActive => (IsBuffering \/ IsStreaming)
    /\ ~crw.wroteHeader => (~IsBuffering /\ ~IsStreaming /\ ~CompressionActive)
    /\ crw.wroteHeader = first.done
    /\ first.done =>
         /\ CompressionActive = checkIsCompressable(first.code, first.hdr)
         /\ IsBuffering = ( /\ checkIsCompressable(first.code, first.hdr)
                            /\ getContentLength(first.hdr) < CompressMaxBuf )

\* a buffering sink whose headers the handler has since made ineligible
C19_Witness ==
  /\ Wrapped
  /\ IsBuffering
  /\ ~IsStreaming
  /\ checkIsCompressable(first.code, first.hdr)
  /\ hdr[hdrTrailer] # <<>>
  /\ ~checkIsCompressable(first.code, hdr)
  /\ last.op = "SetHeader"
  /\ hw = <<2, 3>>
  /\ crw.buf # <<>>

====
